---- MODULE Spec2Model ----
(***************************************************************************)
(* yaler: a man-in-the-middle HTTP/HTTPS forward proxy.                    *)
(*                                                                         *)
(* The module models                                                       *)
(*   - AcceptorMap (src/src/acceptor.rs): normalize, base_cert_param and   *)
(*     get, over a time-to-idle map, behind the std Mutex the connection   *)
(*     tasks share;                                                        *)
(*   - the CONNECT path of Server (src/src/server.rs): handle_stream,      *)
(*     connect_to_remote, handle_https and the two link copy loops;        *)
(*   - the header reader (src/src/http.rs), the dispatch on the method and *)
(*     the plain path of Server: handle_http, read_body, the relay loop;   *)
(*   - the accept loop, Server::run, under main (src/src/main.rs).         *)
(*                                                                         *)
(* Host names are sequences of one-character strings.                      *)
(***************************************************************************)
EXTENDS Integers, Sequences, FiniteSets, TLC

(***************************************************************************)
(* Bounds of the model.                                                    *)
(***************************************************************************)
\* connection tasks spawned by Server::run
NumTasks == 2
\* longest host string enumerated for normalize
MaxHostLen == 5
\* longest first label put in front of a host's parent domain
MaxLabelLen == 1
\* number of time advances in a run
MaxTicks == 3
\* bytes each peer of a tunnel sends
MaxSend == 2
\* longest byte stream the header reader is run on
MaxStreamLen == 9
\* bytes the client sends behind the request head before the tunnel
MaxAfter == 2
\* largest Content-Length of a POST
MaxBody == 2
\* chunks of a response body
MaxChunks == 2

(***************************************************************************)
(* Program constants.                                                      *)
(***************************************************************************)
\* Duration::from_secs(3600), the time-to-idle given to every insert
TTI == 3600

Tasks == 1..NumTasks

Alphabet == {"a", "b", ".", "*"}
LabelAlphabet == {"a", "b"}

SeqsUpTo(S, n) == UNION {[1..k -> S] : k \in 0..n}

\* every host string the normalize checks enumerate
Hosts == SeqsUpTo(Alphabet, MaxHostLen)
Labels == SeqsUpTo(LabelAlphabet, MaxLabelLen)

\* the hosts of the CONNECT scenarios
HostA == <<"a", ".", "e", "x", "a", "m", "p", "l", "e", ".", "c", "o", "m">>
HostB == <<"b", ".", "e", "x", "a", "m", "p", "l", "e", ".", "c", "o", "m">>
HostExample == <<"e", "x", "a", "m", "p", "l", "e", ".", "c", "o", "m">>
HostNoDots == <<"n", "o", "d", "o", "t", "s">>
WildExample == <<"*", ".", "e", "x", "a", "m", "p", "l", "e", ".", "c", "o", "m">>
ConnectHosts == {HostA, HostB, HostExample, HostNoDots}

VARIABLES
  \* ---- AcceptorMap and the Mutex around it
  map,        \* endorphin HashMap: set of entries [key, acc, tti, idle]
  nextAcc,    \* identity of the next Arc<TlsAcceptor> allocated
  lockHolder, \* task holding the MutexGuard, 0 when free
  poisoned,   \* the Mutex is poisoned (a task panicked holding the guard)
  ticks,      \* time advances so far
  \* ---- per connection task
  pc,         \* position of the task in handle_stream / AcceptorMap::get
  host,       \* req.uri().host()
  key,        \* the local `host` of get after normalize
  got,        \* the acceptor get returned
  \* ---- observations
  mintLog,    \* per key, its last mint: [key, id, age, since]
  lookLog,    \* per key, the last lookup that returned: [key, id, ago]
  seen        \* per task in get, what the call saw: [gap, prev, minted]

mapVars == <<map, nextAcc, lockHolder, poisoned, ticks, pc, host, key, got,
             mintLog, lookLog, seen>>

VARIABLES
  \* ---- the CONNECT request of the connection followed through the tunnel
  reqVersion, \* req.version()
  reqHasPort, \* req.uri().port() is Some
  \* ---- connect_to_remote
  connection, \* result of TcpStream::connect: "none", "ok", "err"
  wbuf,       \* replies in the BufStream's write buffer
  clientWire, \* replies delivered to the client's socket
  \* ---- handle_https
  tlsOut,     \* outbound handshake (connector.connect): "none", "ok", "err"
  tlsIn,      \* inbound handshake (acceptor.accept): "none", "ok", "err"
  presented,  \* the leaf the inbound handshake was made with
  result,     \* what handle_https returned: "none", "ok", "err"
  \* ---- the two runs of link, by direction
  lpc,        \* "idle", "read", "write", "flush", "ok", "err"
  buf,        \* the bytes of the last read, buf[..len]
  off,        \* how much of buf write_all has written
  rd,         \* every byte read from the source so far
  wr,         \* every byte written to the destination so far
  \* ---- the two peers, by side
  sent,       \* number of bytes the peer has sent
  inq,        \* bytes sent by the peer and not yet read by the proxy
  closed,     \* the peer has closed its sending side
  reset       \* the connection to the peer is broken: I/O on it fails

connVars == <<reqVersion, reqHasPort, connection, wbuf, clientWire, tlsOut, tlsIn,
              presented, result, lpc, buf, off, rd, wr, sent, inq, closed, reset>>

VARIABLES
  \* ---- the client's socket and the BufStream around it
  stream,     \* every byte the client sends before the tunnel, in order
  arrived,    \* how many of them have arrived at the socket
  cshut,      \* the client has shut its sending side: reads meet EOF
  pulled,     \* how many the BufStream has pulled into its read buffer
  pos,        \* how many have been consumed from the BufStream
  \* ---- read_until_header_end
  hbuf,       \* the local `buf` of the current turn
  check,      \* the bytes read_exact has put into `check` so far
  vec,        \* the caller's buffer
  hres,       \* what the call returned: "none", "ok", "err"
  ret,        \* the count it returned
  \* ---- handle_stream
  parsed,     \* Request::from_utf8 returned Ok
  reqMethod,  \* req.method()
  reqLength,  \* the Content-Length header of the request
  inner,      \* what the TcpStream of stream.into_inner() yields to its reader
  \* ---- handle_http
  body,       \* the request body handed to hyper
  upReq,      \* the request issued upstream: NoReq or [body]
  upBody,     \* what the response body still has to yield
  upLen,      \* the length the response body still expects, Unsized if unknown
  chunk,      \* the chunk data() yielded, being written to the client
  \* ---- Server::run under main
  srv         \* "accepting" or "exited"

hdrVars == <<stream, arrived, cshut, pulled, pos, hbuf, check, vec, hres, ret>>
reqVars == <<parsed, reqMethod, reqLength>>
httpVars == <<body, upReq, upBody, upLen, chunk>>
moreVars == <<hdrVars, reqVars, inner, httpVars, srv>>

(***************************************************************************)
(* AcceptorMap::normalize                                                  *)
(***************************************************************************)
\* host.chars().filter(|c| *c == '.').count()
CountDots(h) == Cardinality({i \in 1..Len(h) : h[i] = "."})

\* host.find('.').unwrap_or_default(): 0-based offset of the first dot, 0 if none
FirstDot(h) ==
  IF \E i \in 1..Len(h) : h[i] = "."
  THEN (CHOOSE i \in 1..Len(h) : h[i] = "." /\ \A j \in 1..(i - 1) : h[j] # ".") - 1
  ELSE 0

\* &host[first_dot..]
SliceFrom(h, start) == SubSeq(h, start + 1, Len(h))

normalizeMutKeepLabel(h) ==
  IF CountDots(h) > 1 THEN <<"*">> \o h ELSE h
normalizeMutOneDot(h) ==
  IF CountDots(h) > 0 THEN <<"*">> \o SliceFrom(h, FirstDot(h)) ELSE h
normalizeMutThreeDots(h) ==
  IF CountDots(h) > 2 THEN <<"*">> \o SliceFrom(h, FirstDot(h)) ELSE h
normalizeMutDropDot(h) ==
  IF CountDots(h) > 1 THEN <<"*">> \o SliceFrom(h, FirstDot(h) + 1) ELSE h
normalize(h) ==
  IF CountDots(h) > 1 THEN <<"*">> \o SliceFrom(h, FirstDot(h)) ELSE h

(***************************************************************************)
(* AcceptorMap::base_cert_param and the acceptor built from it             *)
(***************************************************************************)
base_cert_paramMutCn(h) == [san |-> h, cn |-> <<"Y", "a", "l", "e", "r">>]
\* subject_alt_names gets DnsName(host), the distinguished name CommonName host
base_cert_param(h) == [san |-> h, cn |-> h]

NoAcc == [id |-> 0, san |-> <<>>, cn |-> <<>>]
NewAcceptor(id, params) == [id |-> id, san |-> params.san, cn |-> params.cn]

(***************************************************************************)
(* The time-to-idle map (endorphin HashMap with TTIPolicy)                 *)
(***************************************************************************)
\* The policy compares the time elapsed since an entry's last access with the
\* entry's tti.  The model keeps that elapsed time, idle, in the entry: an access
\* sets it to 0 and the passing of time adds to it (Tick).
\* an entry is served while it has been idle for less than its tti
Live(e) == e.idle < e.tti
ContainsKey(k) == \E e \in map : e.key = k /\ Live(e)
\* insert replaces the entry of the key; entries idle past their tti are dropped
Insert(k, v, tti) ==
  {e \in map : e.key # k /\ Live(e)} \cup {[key |-> k, acc |-> v, tti |-> tti, idle |-> 0]}
RefreshMutNone(k) == map
\* get refreshes the idle timer of the entry it returns
Refresh(k) == {IF e.key = k THEN [e EXCEPT !.idle = 0] ELSE e : e \in map}
Entry(k) == CHOOSE e \in map : e.key = k /\ Live(e)

(***************************************************************************)
(* Observations kept for the properties                                    *)
(***************************************************************************)
NoLook == [key |-> <<>>, id |-> 0, ago |-> 0]
HasLook(k) == \E l \in lookLog : l.key = k
LastLook(k) == IF HasLook(k) THEN CHOOSE l \in lookLog : l.key = k ELSE NoLook
NoSeen == [gap |-> -1, prev |-> 0, minted |-> FALSE]
HasMint(k) == \E m \in mintLog : m.key = k
LastMint(k) == CHOOSE m \in mintLog : m.key = k
\* the mint of key k now: since is the time since the previous mint of k, -1
\* if there was none
MintRecord(k, id) ==
  [key |-> k, id |-> id, age |-> 0, since |-> IF HasMint(k) THEN LastMint(k).age ELSE -1]

(***************************************************************************)
(* handle_stream: the critical section around AcceptorMap::get             *)
(***************************************************************************)
LockFreeMutNoExclusion == TRUE
\* Mutex::lock returns once no other task holds the guard
LockFree == lockHolder = 0

\* acceptors.lock().unwrap(): a poisoned Mutex makes the unwrap panic
AcquireLock(t) ==
  /\ pc[t] = "lock"
  /\ LockFree
  /\ IF poisoned
     THEN /\ pc' = [pc EXCEPT ![t] = "panicked"]
          /\ UNCHANGED lockHolder
     ELSE /\ pc' = [pc EXCEPT ![t] = "check"]
          /\ lockHolder' = t
  /\ UNCHANGED <<map, nextAcc, poisoned, ticks, host, key, got, mintLog, lookLog, seen>>
  /\ UNCHANGED <<connVars, moreVars>>

\* get: normalize the host and test contains_key
GetCheck(t) ==
  /\ pc[t] = "check"
  /\ LET k == normalize(host[t]) IN
       /\ key' = [key EXCEPT ![t] = k]
       /\ seen' = [seen EXCEPT ![t] =
                     IF HasLook(k)
                     THEN [gap |-> LastLook(k).ago, prev |-> LastLook(k).id,
                           minted |-> FALSE]
                     ELSE NoSeen]
       /\ pc' = [pc EXCEPT ![t] = IF ContainsKey(k) THEN "lookup" ELSE "mint"]
  /\ UNCHANGED <<map, nextAcc, lockHolder, poisoned, ticks, host, got, mintLog, lookLog>>
  /\ UNCHANGED <<connVars, moreVars>>

\* get, on a miss: mint the leaf, build the acceptor, insert it with the TTI
GetMint(t) ==
  /\ pc[t] = "mint"
  /\ LET acceptor == NewAcceptor(nextAcc, base_cert_param(key[t])) IN
       /\ map' = Insert(key[t], acceptor, TTI)
       /\ mintLog' = {m \in mintLog : m.key # key[t]} \cup {MintRecord(key[t], nextAcc)}
  /\ nextAcc' = nextAcc + 1
  /\ seen' = [seen EXCEPT ![t].minted = TRUE]
  /\ pc' = [pc EXCEPT ![t] = "lookup"]
  /\ UNCHANGED <<lockHolder, poisoned, ticks, host, key, got, lookLog>>
  /\ UNCHANGED <<connVars, moreVars>>

\* get: self.map.get(&host).unwrap().clone(); a None panics with the guard held
GetLookup(t) ==
  /\ pc[t] = "lookup"
  /\ IF ContainsKey(key[t])
     THEN /\ got' = [got EXCEPT ![t] = Entry(key[t]).acc]
          /\ map' = Refresh(key[t])
          /\ lookLog' = {l \in lookLog : l.key # key[t]}
                          \cup {[key |-> key[t], id |-> Entry(key[t]).acc.id, ago |-> 0]}
          /\ pc' = [pc EXCEPT ![t] = "unlock"]
          /\ UNCHANGED <<lockHolder, poisoned>>
     ELSE /\ pc' = [pc EXCEPT ![t] = "panicked"]
          /\ poisoned' = TRUE
          /\ lockHolder' = IF lockHolder = t THEN 0 ELSE lockHolder
          /\ UNCHANGED <<got, map, lookLog>>
  /\ UNCHANGED <<nextAcc, ticks, host, key, mintLog, seen>>
  /\ UNCHANGED <<connVars, moreVars>>

ReleaseLockMutKeep(t) ==
  /\ pc[t] = "unlock"
  /\ pc' = [pc EXCEPT ![t] = "connect"]
  /\ seen' = [seen EXCEPT ![t] = NoSeen]
  /\ UNCHANGED <<map, nextAcc, lockHolder, poisoned, ticks, host, key, got, mintLog, lookLog>>
  /\ UNCHANGED <<connVars, moreVars>>

\* the guard goes out of scope at the end of the block
ReleaseLock(t) ==
  /\ pc[t] = "unlock"
  /\ lockHolder' = IF lockHolder = t THEN 0 ELSE lockHolder
  /\ pc' = [pc EXCEPT ![t] = "connect"]
  /\ seen' = [seen EXCEPT ![t] = NoSeen]
  /\ UNCHANGED <<map, nextAcc, poisoned, ticks, host, key, got, mintLog, lookLog>>
  /\ UNCHANGED <<connVars, moreVars>>

GetStep(t) ==
  \/ AcquireLock(t)
  \/ GetCheck(t)
  \/ GetMint(t)
  \/ GetLookup(t)
  \/ ReleaseLock(t)

(***************************************************************************)
(* The request head on the client's socket                                 *)
(***************************************************************************)
CR == "\r"
LF == "\n"
\* the terminator read_until_header_end looks for
Terminator == <<CR, LF, CR, LF>>
\* a request head with nothing in it that the reader looks at but its end
ReqHead == <<"x">> \o Terminator

Methods == {"CONNECT", "GET", "POST"}
\* headers.get(CONTENT_LENGTH) is None
NoLength == -1
NoReq == [sent |-> FALSE, body |-> <<>>]
\* a response body of unknown length: is_end_stream never reports its end
Unsized == -1

\* the head has been read up to its end and parsed as a CONNECT
HeadRead ==
  /\ stream = ReqHead
  /\ arrived = Len(ReqHead)
  /\ cshut = FALSE
  /\ pulled = Len(ReqHead)
  /\ pos = Len(ReqHead)
  /\ hbuf = <<>>
  /\ check = <<>>
  /\ vec = ReqHead
  /\ hres = "ok"
  /\ ret = Len(ReqHead)
  /\ parsed = TRUE
  /\ reqMethod = "CONNECT"
  /\ reqLength = NoLength

\* handle_http has not been entered, the accept loop runs
HttpIdle ==
  /\ inner = <<>>
  /\ body = <<>>
  /\ upReq = NoReq
  /\ upBody = <<>>
  /\ upLen = 0
  /\ chunk = 0
  /\ srv = "accepting"

Dirs == {"c2s", "s2c"}
Sides == {"client", "origin"}

\* no connection is in its tunnel
ConnIdle ==
  /\ connection = "none"
  /\ wbuf = <<>>
  /\ clientWire = <<>>
  /\ tlsOut = "none"
  /\ tlsIn = "none"
  /\ presented = NoAcc
  /\ result = "none"
  /\ lpc = [d \in Dirs |-> "idle"]
  /\ buf = [d \in Dirs |-> <<>>]
  /\ off = [d \in Dirs |-> 0]
  /\ rd = [d \in Dirs |-> <<>>]
  /\ wr = [d \in Dirs |-> <<>>]
  /\ sent = [x \in Sides |-> 0]
  /\ inq = [x \in Sides |-> <<>>]
  /\ closed = [x \in Sides |-> FALSE]
  /\ reset = [x \in Sides |-> FALSE]

MapInitCommon ==
  /\ map = {}
  /\ nextAcc = 1
  /\ lockHolder = 0
  /\ poisoned = FALSE
  /\ ticks = 0
  /\ key = [t \in Tasks |-> <<>>]
  /\ got = [t \in Tasks |-> NoAcc]
  /\ mintLog = {}
  /\ lookLog = {}
  /\ seen = [t \in Tasks |-> NoSeen]

(***************************************************************************)
(* NormSpec: get on an empty map for every host string, followed by a      *)
(* second CONNECT whose host is a sibling of the first (another first      *)
(* label on the same parent domain) or the first host's normalized form.   *)
(***************************************************************************)
IsFirstDot(h, i) == h[i] = "." /\ \A j \in 1..(i - 1) : h[j] # "."
HasDot(h) == \E i \in 1..Len(h) : h[i] = "."
\* h with everything before its first dot removed
FromFirstDot(h) ==
  LET i == CHOOSE i \in 1..Len(h) : IsFirstDot(h, i)
  IN  [k \in 1..(Len(h) - i + 1) |-> h[i + k - 1]]

NormInit ==
  /\ MapInitCommon
  /\ ConnIdle
  /\ HeadRead
  /\ HttpIdle
  /\ reqVersion = "HTTP/1.1"
  /\ reqHasPort = TRUE
  /\ \E h \in Hosts \cup ConnectHosts : host = [t \in Tasks |-> IF t = 1 THEN h ELSE <<>>]
  /\ pc = [t \in Tasks |-> IF t = 1 THEN "lock" ELSE "idle"]

ConnectSibling(l) ==
  /\ pc[1] = "connect"
  /\ pc[2] = "idle"
  /\ HasDot(host[1])
  /\ host' = [host EXCEPT ![2] = l \o FromFirstDot(host[1])]
  /\ pc' = [pc EXCEPT ![2] = "lock"]
  /\ UNCHANGED <<map, nextAcc, lockHolder, poisoned, ticks, key, got, mintLog, lookLog, seen>>
  /\ UNCHANGED <<connVars, moreVars>>

ConnectNormalized ==
  /\ pc[1] = "connect"
  /\ pc[2] = "idle"
  /\ host' = [host EXCEPT ![2] = key[1]]
  /\ pc' = [pc EXCEPT ![2] = "lock"]
  /\ UNCHANGED <<map, nextAcc, lockHolder, poisoned, ticks, key, got, mintLog, lookLog, seen>>
  /\ UNCHANGED <<connVars, moreVars>>

NormNext ==
  \/ \E t \in Tasks : GetStep(t)
  \/ \E l \in Labels : ConnectSibling(l)
  \/ ConnectNormalized

vars == <<mapVars, connVars, moreVars>>

NormSpec == NormInit /\ [][NormNext]_vars

(***************************************************************************)
(* Properties of normalize                                                 *)
(***************************************************************************)
Normalized(t) == pc[t] \in {"mint", "lookup", "unlock", "connect"}
Returned(t) == pc[t] = "connect"

HasTwoDots(h) == \E i, j \in 1..Len(h) : i < j /\ h[i] = "." /\ h[j] = "."
IsWildcardOf(out, h) ==
  \E i \in 1..Len(h) :
    /\ IsFirstDot(h, i)
    /\ out = <<"*">> \o [k \in 1..(Len(h) - i + 1) |-> h[i + k - 1]]
SameParent(h1, h2) ==
  \E i \in 1..Len(h1), j \in 1..Len(h2) :
    /\ IsFirstDot(h1, i)
    /\ IsFirstDot(h2, j)
    /\ Len(h1) - i = Len(h2) - j
    /\ \A k \in 0..(Len(h1) - i) : h1[i + k] = h2[j + k]

\* C7: normalize(h) is "*" followed by the suffix of h from its first dot when h
\* has two or more dots, and h itself otherwise; the normalized value is the key
\* the entry is cached under and the SAN and CN of the leaf minted for it.
C7_NormalizeShape ==
  \A t \in Tasks :
    /\ Normalized(t) =>
         IF HasTwoDots(host[t])
         THEN IsWildcardOf(key[t], host[t])
         ELSE key[t] = host[t]
    /\ Returned(t) =>
         /\ got[t].san = key[t]
         /\ got[t].cn = key[t]
         /\ \E e \in map : e.key = key[t] /\ e.acc = got[t]
         /\ host[t] = HostNoDots =>
              (got[t].san = HostNoDots /\ \E e \in map : e.key = HostNoDots)

C7_Witness ==
  /\ Returned(1)
  /\ host[1] = <<"a", ".", "a", ".", "a">>
  /\ key[1] = <<"*", ".", "a", ".", "a">>
  /\ got[1].san = <<"*", ".", "a", ".", "a">>

\* C8 as stated: any two hosts equal from their first dot on normalize to the
\* same key.
C8_Original ==
  (Normalized(1) /\ Normalized(2) /\ SameParent(host[1], host[2]))
    => key[1] = key[2]

\* C8 amended: two hosts with two or more dots that are equal from their first
\* dot on normalize to the same key, and after a CONNECT for each the map holds
\* one entry, under that key, whose acceptor both connections got.
C8_SameParentSameKey ==
  (Normalized(1) /\ Normalized(2) /\ SameParent(host[1], host[2])
     /\ HasTwoDots(host[1]) /\ HasTwoDots(host[2]))
    => /\ key[1] = key[2]
       /\ Returned(2) =>
            /\ got[1] = got[2]
            /\ Cardinality(map) = 1
            /\ \A e \in map : e.key = key[1] /\ e.acc = got[1]
            /\ \A m \in mintLog : m.key = key[1] /\ m.since = -1
            /\ host[1] = HostA => \A e \in map : e.key = WildExample

C8_Witness ==
  /\ Returned(1)
  /\ Returned(2)
  /\ host[1] = HostA
  /\ host[2] = HostB
  /\ got[1] = got[2]
  /\ got[1].san = WildExample

\* C10: normalize is idempotent: a CONNECT whose host is the normalized form of
\* an earlier host gets the same key, hits the entry of the earlier one and
\* mints nothing.
C10_Idempotent ==
  (Normalized(1) /\ Normalized(2) /\ host[2] = key[1])
    => /\ key[2] = key[1]
       /\ pc[2] # "mint"
       /\ Returned(2) => (got[2] = got[1] /\ \A m \in mintLog : m.key = key[1] /\ m.since = -1)

C10_Witness ==
  /\ Returned(2)
  /\ host[1] = <<".", ".", "a">>
  /\ host[2] = <<"*", ".", ".", "a">>
  /\ key[2] = host[2]

(***************************************************************************)
(* MapSpec: connection tasks taking the lock and calling get while time    *)
(* passes.  A slot whose task is through with the map is taken by the next *)
(* accepted connection.                                                    *)
(***************************************************************************)
MapHosts == {HostA, HostB}
TickSteps == {TTI - 1, TTI}

MapInit ==
  /\ MapInitCommon
  /\ ConnIdle
  /\ HeadRead
  /\ HttpIdle
  /\ reqVersion = "HTTP/1.1"
  /\ reqHasPort = TRUE
  /\ host = [t \in Tasks |-> <<>>]
  /\ pc = [t \in Tasks |-> "idle"]

\* Server::run: accept, then spawn handle_stream for a CONNECT to host h
Spawn(t, h) ==
  /\ srv = "accepting"
  /\ pc[t] \in {"idle", "connect", "panicked"}
  /\ pc' = [pc EXCEPT ![t] = "lock"]
  /\ host' = [host EXCEPT ![t] = h]
  /\ key' = [key EXCEPT ![t] = <<>>]
  /\ got' = [got EXCEPT ![t] = NoAcc]
  /\ seen' = [seen EXCEPT ![t] = NoSeen]
  /\ UNCHANGED <<map, nextAcc, lockHolder, poisoned, ticks, mintLog, lookLog>>
  /\ UNCHANGED <<connVars, moreVars>>

\* elapsed times are kept up to TTI: the code compares them with nothing larger
Elapsed(x, d) == IF x + d > TTI THEN TTI ELSE x + d

\* time passes: d seconds more since every access, lookup and mint
Tick(d) ==
  /\ ticks < MaxTicks
  /\ ticks' = ticks + 1
  /\ map' = {[e EXCEPT !.idle = Elapsed(e.idle, d)] : e \in map}
  /\ lookLog' = {[l EXCEPT !.ago = Elapsed(l.ago, d)] : l \in lookLog}
  /\ mintLog' = {[m EXCEPT !.age = Elapsed(m.age, d)] : m \in mintLog}
  /\ UNCHANGED <<nextAcc, lockHolder, poisoned, pc, host, key, got, seen>>
  /\ UNCHANGED <<connVars, moreVars>>

MapNext ==
  \/ \E t \in Tasks : GetStep(t)
  \/ \E t \in Tasks, h \in MapHosts : Spawn(t, h)
  \/ \E d \in TickSteps : Tick(d)

MapSpec == MapInit /\ [][MapNext]_vars

HasResult(t) == pc[t] \in {"unlock", "connect"}

\* C5: a lookup made less than 3600 s after the previous lookup of its key
\* returns the acceptor that lookup returned, however old the entry is; a lookup
\* made 3600 s or more after the previous one returns a newly minted acceptor,
\* cached under the same key.
C5_IdleWindow ==
  \A t \in Tasks :
    (pc[t] = "unlock" /\ seen[t].gap >= 0) =>
      /\ seen[t].gap < TTI => (got[t].id = seen[t].prev /\ ~seen[t].minted)
      /\ seen[t].gap >= TTI =>
           /\ seen[t].minted
           /\ got[t].id # seen[t].prev
           /\ got[t].san = key[t]

C5_Witness ==
  /\ pc[2] = "unlock"
  /\ seen[2].gap = TTI - 1
  /\ got[2].id = seen[2].prev
  /\ \E m \in mintLog : m.id = got[2].id /\ m.age >= TTI

\* the other case of C5: a lookup 3600 s after the previous one mints anew
C5_WitnessRemint ==
  /\ pc[2] = "unlock"
  /\ seen[2].gap = TTI
  /\ seen[2].minted
  /\ got[2].id # seen[2].prev
  /\ got[1].id = seen[2].prev
  /\ got[1].san = got[2].san

\* C6: tasks whose first CONNECTs for one host-key overlap cause one mint, the
\* map never holds two entries of a key, and all of them get the same acceptor:
\* two mints of a key are at least 3600 s apart.
C6_NoHerd ==
  /\ \A e1, e2 \in map : e1.key = e2.key => e1 = e2
  /\ \A m \in mintLog : m.since = -1 \/ m.since >= TTI
  /\ \A t, u \in Tasks :
       (HasResult(t) /\ HasResult(u) /\ key[t] = key[u] /\ LastMint(key[t]).since = -1)
         => got[t] = got[u]

C6_Witness ==
  /\ ticks = 0
  /\ pc[1] = "connect"
  /\ pc[2] = "connect"
  /\ host[1] = HostA
  /\ host[2] = HostB
  /\ got[1] = got[2]
  /\ \A m \in mintLog : m.since = -1

(***************************************************************************)
(* ConnSpec: one CONNECT connection from the lookup of its acceptor to the *)
(* end of its tunnel (handle_stream, connect_to_remote, handle_https and   *)
(* the two runs of link).                                                  *)
(***************************************************************************)
ConnTask == 1
ConnHosts == {HostExample, HostA}
Versions == {"HTTP/1.0", "HTTP/1.1"}
\* let mut buf = [0u8; 1024 * 10]
LinkBufSize == 1024 * 10

From(d) == IF d = "c2s" THEN "client" ELSE "origin"
To(d) == IF d = "c2s" THEN "origin" ELSE "client"
Running(d) == lpc[d] \in {"read", "write", "flush"}
Min(a, b) == IF a < b THEN a ELSE b

ConnInit ==
  /\ MapInitCommon
  /\ ConnIdle
  /\ HeadRead
  /\ HttpIdle
  /\ reqVersion \in Versions
  /\ reqHasPort \in BOOLEAN
  /\ \E h \in ConnHosts : host = [t \in Tasks |-> IF t = ConnTask THEN h ELSE <<>>]
  /\ pc = [t \in Tasks |-> IF t = ConnTask THEN "lock" ELSE "idle"]

ReplyStatusMutAlwaysOk(connected) == 200
\* StatusCode::OK if the connect succeeded, INTERNAL_SERVER_ERROR otherwise
ReplyStatus(connected) == IF connected THEN 200 ELSE 500

\* Response::builder().version(req.version()).status(status_code)
Response(version, status) == [version |-> version, status |-> status]

\* connect_to_remote: TcpStream::connect(host:port).await; port().unwrap()
\* panics on an authority without a port
ConnectToRemote(t) ==
  /\ pc[t] = "connect"
  /\ IF reqHasPort
     THEN /\ \E ok \in BOOLEAN : connection' = IF ok THEN "ok" ELSE "err"
          /\ pc' = [pc EXCEPT ![t] = "reply"]
     ELSE /\ pc' = [pc EXCEPT ![t] = "panicked"]
          /\ UNCHANGED connection
  /\ UNCHANGED <<map, nextAcc, lockHolder, poisoned, ticks, host, key, got, mintLog, lookLog, seen>>
  /\ UNCHANGED moreVars
  /\ UNCHANGED <<reqVersion, reqHasPort, wbuf, clientWire, tlsOut, tlsIn, presented, result,
                 lpc, buf, off, rd, wr, sent, inq, closed, reset>>

\* connect_to_remote: stream.write_all(response) into the BufStream
WriteReply(t) ==
  /\ pc[t] = "reply"
  /\ wbuf' = Append(wbuf, Response(reqVersion, ReplyStatus(connection = "ok")))
  /\ pc' = [pc EXCEPT ![t] = "flush"]
  /\ UNCHANGED <<map, nextAcc, lockHolder, poisoned, ticks, host, key, got, mintLog, lookLog, seen>>
  /\ UNCHANGED moreVars
  /\ UNCHANGED <<reqVersion, reqHasPort, connection, clientWire, tlsOut, tlsIn, presented, result,
                 lpc, buf, off, rd, wr, sent, inq, closed, reset>>

\* connect_to_remote: stream.flush().await.unwrap(), then the return of
\* connection.map_err(..) and its unwrap in handle_stream
\* stream.into_inner(): the socket without the BufStream; what the BufStream
\* had pulled into its read buffer and not handed out goes with the BufStream
IntoInner == SubSeq(stream, pulled + 1, Len(stream))

\* connect_to_remote: stream.flush().await.unwrap(), then the return of
\* connection.map_err(..), its unwrap in handle_stream and the arguments of the
\* call of handle_https
FlushReply(t) ==
  /\ pc[t] = "flush"
  /\ \E flushed \in BOOLEAN :
       IF flushed
       THEN /\ clientWire' = clientWire \o wbuf
            /\ wbuf' = <<>>
            /\ pc' = [pc EXCEPT ![t] = IF connection = "ok" THEN "tls_out" ELSE "panicked"]
            /\ inner' = IF connection = "ok" THEN IntoInner ELSE inner
       ELSE /\ pc' = [pc EXCEPT ![t] = "panicked"]
            /\ UNCHANGED <<clientWire, wbuf, inner>>
  /\ UNCHANGED <<map, nextAcc, lockHolder, poisoned, ticks, host, key, got, mintLog, lookLog, seen>>
  /\ UNCHANGED <<hdrVars, reqVars, httpVars, srv>>
  /\ UNCHANGED <<reqVersion, reqHasPort, connection, tlsOut, tlsIn, presented, result,
                 lpc, buf, off, rd, wr, sent, inq, closed, reset>>

TlsConnectMutGoOn(t) ==
  /\ pc[t] = "tls_out"
  /\ \E ok \in BOOLEAN : tlsOut' = IF ok THEN "ok" ELSE "err"
  /\ pc' = [pc EXCEPT ![t] = "tls_in"]
  /\ UNCHANGED <<map, nextAcc, lockHolder, poisoned, ticks, host, key, got, mintLog, lookLog, seen>>
  /\ UNCHANGED <<reqVersion, reqHasPort, connection, wbuf, clientWire, tlsIn, presented, result,
                 lpc, buf, off, rd, wr, sent, inq, closed, reset>>
  /\ UNCHANGED moreVars

\* handle_https: connector.connect(server_name, remote).await.map_err(..)?
TlsConnect(t) ==
  /\ pc[t] = "tls_out"
  /\ \E ok \in BOOLEAN :
       /\ tlsOut' = IF ok THEN "ok" ELSE "err"
       /\ pc' = [pc EXCEPT ![t] = IF ok THEN "tls_in" ELSE "done"]
       /\ result' = IF ok THEN result ELSE "err"
  /\ UNCHANGED <<map, nextAcc, lockHolder, poisoned, ticks, host, key, got, mintLog, lookLog, seen>>
  /\ UNCHANGED moreVars
  /\ UNCHANGED <<reqVersion, reqHasPort, connection, wbuf, clientWire, tlsIn, presented,
                 lpc, buf, off, rd, wr, sent, inq, closed, reset>>

\* handle_https: acceptor.accept(stream).await.map_err(..)?
TlsAccept(t) ==
  /\ pc[t] = "tls_in"
  /\ presented' = got[t]
  /\ \E ok \in BOOLEAN :
       /\ tlsIn' = IF ok THEN "ok" ELSE "err"
       /\ pc' = [pc EXCEPT ![t] = IF ok THEN "spawn" ELSE "done"]
       /\ result' = IF ok THEN result ELSE "err"
  /\ UNCHANGED <<map, nextAcc, lockHolder, poisoned, ticks, host, key, got, mintLog, lookLog, seen>>
  /\ UNCHANGED moreVars
  /\ UNCHANGED <<reqVersion, reqHasPort, connection, wbuf, clientWire, tlsOut,
                 lpc, buf, off, rd, wr, sent, inq, closed, reset>>

\* handle_https: split both streams, tokio::spawn(link(stream_read, remote_write))
\* and enter link(remote_read, stream_write)
SpawnLink(t) ==
  /\ pc[t] = "spawn"
  /\ lpc' = [d \in Dirs |-> "read"]
  /\ pc' = [pc EXCEPT ![t] = "link"]
  /\ UNCHANGED <<map, nextAcc, lockHolder, poisoned, ticks, host, key, got, mintLog, lookLog, seen>>
  /\ UNCHANGED moreVars
  /\ UNCHANGED <<reqVersion, reqHasPort, connection, wbuf, clientWire, tlsOut, tlsIn, presented,
                 result, buf, off, rd, wr, sent, inq, closed, reset>>

\* The return of a run of link.  The run origin -> client is awaited inline by
\* handle_https: Ok goes on to c_to_s.await, Err returns from handle_https by `?`.
Terminate(d, outcome) ==
  /\ lpc' = [lpc EXCEPT ![d] = outcome]
  /\ IF d = "s2c"
     THEN /\ pc' = [pc EXCEPT ![ConnTask] = IF outcome = "ok" THEN "join" ELSE "done"]
          /\ result' = IF outcome = "ok" THEN result ELSE "err"
     ELSE UNCHANGED <<pc, result>>

WriteChunkMutRestart(b, o, n) == SubSeq(b, 1, n)
\* the n bytes one write of write_all takes from the rest of buf[..len]
WriteChunk(b, o, n) == SubSeq(b, o + 1, o + n)

\* link: from.read(&mut buf).await.map_err(..)?; a read of 0 returns Ok(())
LinkRead(d) ==
  /\ lpc[d] = "read"
  /\ \/ /\ reset[From(d)]
        /\ Terminate(d, "err")
        /\ UNCHANGED <<buf, off, rd, inq>>
     \/ /\ inq[From(d)] # <<>>
        /\ \E n \in 1..Min(Len(inq[From(d)]), LinkBufSize) :
             /\ buf' = [buf EXCEPT ![d] = SubSeq(inq[From(d)], 1, n)]
             /\ rd' = [rd EXCEPT ![d] = @ \o SubSeq(inq[From(d)], 1, n)]
             /\ inq' = [inq EXCEPT ![From(d)] = SubSeq(@, n + 1, Len(@))]
        /\ off' = [off EXCEPT ![d] = 0]
        /\ lpc' = [lpc EXCEPT ![d] = "write"]
        /\ UNCHANGED <<pc, result>>
     \/ /\ ~reset[From(d)]
        /\ inq[From(d)] = <<>>
        /\ closed[From(d)]
        /\ Terminate(d, "ok")
        /\ UNCHANGED <<buf, off, rd, inq>>
  /\ UNCHANGED <<map, nextAcc, lockHolder, poisoned, ticks, host, key, got, mintLog, lookLog, seen>>
  /\ UNCHANGED moreVars
  /\ UNCHANGED <<reqVersion, reqHasPort, connection, wbuf, clientWire, tlsOut, tlsIn, presented,
                 wr, sent, closed, reset>>

\* link: to.write_all(&buf[..len]).await.map_err(..)?, one write at a time
LinkWrite(d) ==
  /\ lpc[d] = "write"
  /\ \/ /\ reset[To(d)]
        /\ Terminate(d, "err")
        /\ UNCHANGED <<off, wr>>
     \/ /\ ~reset[To(d)]
        /\ \E n \in 1..(Len(buf[d]) - off[d]) :
             /\ wr' = [wr EXCEPT ![d] = @ \o WriteChunk(buf[d], off[d], n)]
             /\ off' = [off EXCEPT ![d] = @ + n]
             /\ lpc' = [lpc EXCEPT ![d] = IF off[d] + n = Len(buf[d]) THEN "flush" ELSE "write"]
        /\ UNCHANGED <<pc, result>>
  /\ UNCHANGED <<map, nextAcc, lockHolder, poisoned, ticks, host, key, got, mintLog, lookLog, seen>>
  /\ UNCHANGED moreVars
  /\ UNCHANGED <<reqVersion, reqHasPort, connection, wbuf, clientWire, tlsOut, tlsIn, presented,
                 buf, rd, sent, inq, closed, reset>>

\* link: to.flush().await.map_err(..)?, then the next turn of the loop
LinkFlush(d) ==
  /\ lpc[d] = "flush"
  /\ \/ /\ reset[To(d)]
        /\ Terminate(d, "err")
     \/ /\ ~reset[To(d)]
        /\ lpc' = [lpc EXCEPT ![d] = "read"]
        /\ UNCHANGED <<pc, result>>
  /\ UNCHANGED <<map, nextAcc, lockHolder, poisoned, ticks, host, key, got, mintLog, lookLog, seen>>
  /\ UNCHANGED moreVars
  /\ UNCHANGED <<reqVersion, reqHasPort, connection, wbuf, clientWire, tlsOut, tlsIn, presented,
                 buf, off, rd, wr, sent, inq, closed, reset>>

\* handle_https: c_to_s.await.unwrap()?; Ok(())
Join(t) ==
  /\ pc[t] = "join"
  /\ lpc["c2s"] \in {"ok", "err"}
  /\ result' = lpc["c2s"]
  /\ pc' = [pc EXCEPT ![t] = "done"]
  /\ UNCHANGED <<map, nextAcc, lockHolder, poisoned, ticks, host, key, got, mintLog, lookLog, seen>>
  /\ UNCHANGED moreVars
  /\ UNCHANGED <<reqVersion, reqHasPort, connection, wbuf, clientWire, tlsOut, tlsIn, presented,
                 lpc, buf, off, rd, wr, sent, inq, closed, reset>>

\* The peers of the tunnel.  The k-th byte a peer sends is k.
TunnelLive == \E d \in Dirs : Running(d)

PeerSend(x) ==
  /\ TunnelLive
  /\ ~closed[x]
  /\ ~reset[x]
  /\ sent[x] < MaxSend
  /\ sent' = [sent EXCEPT ![x] = @ + 1]
  /\ inq' = [inq EXCEPT ![x] = Append(@, sent[x] + 1)]
  /\ UNCHANGED <<mapVars, moreVars>>
  /\ UNCHANGED <<reqVersion, reqHasPort, connection, wbuf, clientWire, tlsOut, tlsIn, presented,
                 result, lpc, buf, off, rd, wr, closed, reset>>

\* the peer closes its sending side: reads return 0 once its bytes are read
PeerClose(x) ==
  /\ TunnelLive
  /\ ~closed[x]
  /\ ~reset[x]
  /\ closed' = [closed EXCEPT ![x] = TRUE]
  /\ UNCHANGED <<mapVars, moreVars>>
  /\ UNCHANGED <<reqVersion, reqHasPort, connection, wbuf, clientWire, tlsOut, tlsIn, presented,
                 result, lpc, buf, off, rd, wr, sent, inq, reset>>

\* the connection to the peer breaks: reads and writes on it fail
PeerReset(x) ==
  /\ TunnelLive
  /\ ~reset[x]
  /\ reset' = [reset EXCEPT ![x] = TRUE]
  /\ UNCHANGED <<mapVars, moreVars>>
  /\ UNCHANGED <<reqVersion, reqHasPort, connection, wbuf, clientWire, tlsOut, tlsIn, presented,
                 result, lpc, buf, off, rd, wr, sent, inq, closed>>

\* the steps of the connection task and of each run of link
ConnTaskStep ==
  \/ GetStep(ConnTask)
  \/ ConnectToRemote(ConnTask)
  \/ WriteReply(ConnTask)
  \/ FlushReply(ConnTask)
  \/ TlsConnect(ConnTask)
  \/ TlsAccept(ConnTask)
  \/ SpawnLink(ConnTask)
  \/ Join(ConnTask)
LinkStep(d) == LinkRead(d) \/ LinkWrite(d) \/ LinkFlush(d)

PeerStep ==
  \/ \E x \in Sides : PeerSend(x)
  \/ \E x \in Sides : PeerClose(x)
  \/ \E x \in Sides : PeerReset(x)

ConnNext ==
  \/ ConnTaskStep
  \/ \E d \in Dirs : LinkStep(d)
  \/ PeerStep

ConnSpec == ConnInit /\ [][ConnNext]_vars

\* The runtime polls every task that can make a step: the connection task and
\* each run of link.  Nothing obliges a peer to send, close or break.
FairConnSpec ==
  /\ ConnInit
  /\ [][ConnNext]_vars
  /\ WF_vars(ConnTaskStep)
  /\ \A d \in Dirs : WF_vars(LinkStep(d))

(***************************************************************************)
(* Properties of the CONNECT path                                          *)
(***************************************************************************)
IsPrefix(a, b) == Len(a) <= Len(b) /\ SubSeq(b, 1, Len(a)) = a
InHttps(t) == pc[t] \in {"tls_out", "tls_in", "spawn", "link", "join", "done"}

\* C1: at most one reply is written for a CONNECT, with the request's version
\* and status 200 exactly when the TCP connect succeeded and 500 when it failed;
\* the reply is with the client before any handshake starts; after a 500 there
\* is no handshake and no copy loop and the connection task has ended.
C1_ConnectReply ==
  /\ Len(clientWire) + Len(wbuf) <= 1
  /\ \A i \in 1..Len(clientWire) :
       /\ clientWire[i].version = reqVersion
       /\ clientWire[i].status = 200 <=> connection = "ok"
       /\ clientWire[i].status = 500 <=> connection = "err"
  /\ (InHttps(ConnTask) \/ tlsOut # "none" \/ tlsIn # "none" \/ \E d \in Dirs : lpc[d] # "idle")
       => clientWire = <<[version |-> reqVersion, status |-> 200]>>
  /\ (clientWire # <<>> /\ clientWire[1].status = 500)
       => /\ pc[ConnTask] = "panicked"
          /\ tlsOut = "none"
          /\ tlsIn = "none"
          /\ \A d \in Dirs : lpc[d] = "idle"

C1_Witness ==
  /\ clientWire = <<[version |-> "HTTP/1.0", status |-> 500]>>
  /\ connection = "err"
  /\ pc[ConnTask] = "panicked"

\* C2: in each direction the bytes written to the destination are a prefix of
\* the bytes read from the source, and the two are equal when link has returned
\* Ok after a read of 0.
C2_LinkPrefix ==
  \A d \in Dirs :
    /\ IsPrefix(wr[d], rd[d])
    /\ lpc[d] = "ok" => wr[d] = rd[d]

C2_Witness ==
  /\ lpc["c2s"] = "ok"
  /\ rd["c2s"] = <<1, 2>>
  /\ wr["c2s"] = <<1, 2>>

\* C3: handle_https has returned only when both runs of link have terminated.
C3_ReturnsAfterBoth ==
  pc[ConnTask] = "done" => \A d \in Dirs : ~Running(d)

\* C4: once a read or write has failed in one direction, both directions
\* eventually have terminated, whatever the peers do.
C4_BothTerminate ==
  \A d \in Dirs : (lpc[d] = "err") ~> (\A e \in Dirs : ~Running(e))

\* C9 as stated: the inbound handshake of CONNECT example.com:443 is made with
\* a leaf whose SAN is *.example.com.
C9_Original ==
  (tlsIn # "none" /\ host[ConnTask] = HostExample) => presented.san = WildExample

\* C9 amended: the inbound handshake is made with the leaf cached under the
\* normalized host, whose SAN and CN are that key: example.com for CONNECT
\* example.com:443, *.example.com for CONNECT a.example.com:443.
C9_LeafName ==
  tlsIn # "none" =>
    /\ presented.san = key[ConnTask]
    /\ presented.cn = key[ConnTask]
    /\ \E e \in map : e.key = key[ConnTask] /\ e.acc = presented
    /\ host[ConnTask] = HostExample => presented.san = HostExample
    /\ host[ConnTask] = HostA => presented.san = WildExample

C9_Witness ==
  /\ tlsIn = "ok"
  /\ host[ConnTask] = HostExample
  /\ presented.san = HostExample
  /\ presented.cn = HostExample

(***************************************************************************)
(* ReadHttpExt::read_until_header_end on the BufStream of the connection   *)
(***************************************************************************)
\* The reader tells CR from every other byte, and in `check` LF from every
\* other byte: LF is the byte that is not CR, CR the byte that is not LF.
Bytes == {CR, LF}
\* every byte stream the header reader is run on
Streams == SeqsUpTo(Bytes, MaxStreamLen)

\* A read on the BufStream with an empty read buffer reads the socket: it
\* returns once bytes have arrived, or 0 at EOF.  The read buffer is larger
\* than every stream here, so a fill takes all that has arrived.
CanRead == pos < pulled \/ pulled < arrived \/ cshut
Filled == IF pos < pulled THEN pulled ELSE arrived
\* the bytes the BufStream holds after the fill
Buffered == SubSeq(stream, pos + 1, Filled)
\* memchr(b'\r', available): the place of the first CR, 0 if there is none
FindCR(a) ==
  IF \E i \in 1..Len(a) : a[i] = CR
  THEN CHOOSE i \in 1..Len(a) : a[i] = CR /\ \A j \in 1..(i - 1) : a[j] # CR
  ELSE 0

\* Until the tunnel runs the client is the sender of `stream`; in the tunnel
\* it is the peer of PeerSend, PeerClose and PeerReset.
BeforeTunnel == \A d \in Dirs : lpc[d] = "idle"

\* the client's bytes reach the socket, n at a time
Arrive(n) ==
  /\ BeforeTunnel
  /\ arrived + n <= Len(stream)
  /\ arrived' = arrived + n
  /\ UNCHANGED <<stream, cshut, pulled, pos, hbuf, check, vec, hres, ret>>
  /\ UNCHANGED <<mapVars, connVars, reqVars, inner, httpVars, srv>>

\* the client shuts its sending side after its last byte
ClientShut ==
  /\ BeforeTunnel
  /\ arrived = Len(stream)
  /\ ~cshut
  /\ cshut' = TRUE
  /\ UNCHANGED <<stream, arrived, pulled, pos, hbuf, check, vec, hres, ret>>
  /\ UNCHANGED <<mapVars, connVars, reqVars, inner, httpVars, srv>>

\* self.read_until(b'\r', &mut buf): append to buf up to and including the next
\* CR; it returns at the CR, and at EOF with what it has
ReadUntil(t) ==
  /\ pc[t] = "read_until"
  /\ CanRead
  /\ pulled' = Filled
  /\ LET i == FindCR(Buffered) IN
       IF Buffered = <<>>
       THEN /\ pc' = [pc EXCEPT ![t] = "read_exact"]
            /\ UNCHANGED <<hbuf, pos>>
       ELSE IF i > 0
       THEN /\ hbuf' = hbuf \o SubSeq(Buffered, 1, i)
            /\ pos' = pos + i
            /\ pc' = [pc EXCEPT ![t] = "read_exact"]
       ELSE /\ hbuf' = hbuf \o Buffered
            /\ pos' = Filled
            /\ UNCHANGED pc
  /\ UNCHANGED <<stream, arrived, cshut, check, vec, hres, ret>>
  /\ UNCHANGED <<map, nextAcc, lockHolder, poisoned, ticks, host, key, got, mintLog, lookLog, seen>>
  /\ UNCHANGED <<connVars, reqVars, inner, httpVars, srv>>

AppendTurnMutDropBuf(v, b, c) == v \o c
\* vec.append(&mut buf); vec.append(&mut check.to_vec())
AppendTurn(v, b, c) == v \o b \o c

\* self.read_exact(&mut check), EOF before the third byte is Err(BadHttpError);
\* then the two appends and the test of check.  The Err is unwrapped by
\* handle_stream.
ReadExact(t) ==
  /\ pc[t] = "read_exact"
  /\ CanRead
  /\ pulled' = Filled
  /\ IF Buffered = <<>>
     THEN /\ hres' = "err"
          /\ pc' = [pc EXCEPT ![t] = "panicked"]
          /\ UNCHANGED <<pos, hbuf, check, vec, ret>>
     ELSE LET k == Min(3 - Len(check), Len(Buffered))
              c == check \o SubSeq(Buffered, 1, k)
          IN  /\ pos' = pos + k
              /\ IF Len(c) < 3
                 THEN /\ check' = c
                      /\ UNCHANGED <<hbuf, vec, hres, ret, pc>>
                 ELSE /\ vec' = AppendTurn(vec, hbuf, c)
                      /\ hbuf' = <<>>
                      /\ check' = <<>>
                      /\ IF c = <<LF, CR, LF>>
                         THEN /\ hres' = "ok"
                              /\ ret' = Len(vec')
                              /\ pc' = [pc EXCEPT ![t] = "parse"]
                         ELSE /\ pc' = [pc EXCEPT ![t] = "read_until"]
                              /\ UNCHANGED <<hres, ret>>
  /\ UNCHANGED <<stream, arrived, cshut>>
  /\ UNCHANGED <<map, nextAcc, lockHolder, poisoned, ticks, host, key, got, mintLog, lookLog, seen>>
  /\ UNCHANGED <<connVars, reqVars, inner, httpVars, srv>>

HeaderStep(t) == ReadUntil(t) \/ ReadExact(t)

\* the connection is accepted, nothing of the request has been read
HeadUnread ==
  /\ arrived = 0
  /\ cshut = FALSE
  /\ pulled = 0
  /\ pos = 0
  /\ hbuf = <<>>
  /\ check = <<>>
  /\ vec = <<>>
  /\ hres = "none"
  /\ ret = 0
  /\ parsed = FALSE
  /\ reqMethod = "none"
  /\ reqLength = NoLength

(***************************************************************************)
(* HdrSpec: read_until_header_end, called with an empty buffer, on every   *)
(* byte stream up to the length bound, arriving in any segmentation.       *)
(***************************************************************************)
HdrInit ==
  /\ MapInitCommon
  /\ ConnIdle
  /\ HttpIdle
  /\ HeadUnread
  /\ stream \in Streams
  /\ reqVersion = "HTTP/1.1"
  /\ reqHasPort = TRUE
  /\ host = [t \in Tasks |-> <<>>]
  /\ pc = [t \in Tasks |-> IF t = ConnTask THEN "read_until" ELSE "idle"]

HdrNext ==
  \/ HeaderStep(ConnTask)
  \/ \E n \in 1..MaxStreamLen : Arrive(n)
  \/ ClientShut

HdrSpec == HdrInit /\ [][HdrNext]_vars

\* s has the terminator ending at place e
TerminatorEndsAt(s, e) == e >= 4 /\ e <= Len(s) /\ SubSeq(s, e - 3, e) = Terminator
HasTerminator(s) == \E e \in 1..Len(s) : TerminatorEndsAt(s, e)
\* the end of the first terminator of s
FirstEnd(s) ==
  CHOOSE e \in 1..Len(s) :
    TerminatorEndsAt(s, e) /\ \A f \in 1..(e - 1) : ~TerminatorEndsAt(s, f)

\* C11: on a stream that contains CR LF CR LF the header reader does not fail,
\* and when it returns the buffer holds the stream up to and including the
\* first CR LF CR LF and the count returned is the length of that.
C11_ReadsToFirstTerminator ==
  HasTerminator(stream) =>
    /\ hres # "err"
    /\ hres = "ok" => (vec = SubSeq(stream, 1, FirstEnd(stream)) /\ ret = FirstEnd(stream))

\* C12: when the header reader returns Ok, the buffer followed by the bytes not
\* yet consumed from the stream is the stream, and the count returned is the
\* number of bytes consumed.
C12_RoundTrip ==
  hres = "ok" =>
    /\ vec \o SubSeq(stream, pos + 1, Len(stream)) = stream
    /\ ret = pos
    /\ ret = Len(vec)

C12_Witness ==
  /\ hres = "ok"
  /\ stream = <<CR, LF, LF, LF, CR, LF, CR, LF, LF>>
  /\ vec = SubSeq(stream, 1, 8)
  /\ pos = 8

(***************************************************************************)
(* handle_stream: the parse of the head and the dispatch on the method     *)
(***************************************************************************)
\* what a Content-Length header can say: nothing, or a length
ContentLengths == {NoLength} \cup 0..MaxBody

\* Request::from_utf8(&buf).unwrap(), then the test of req.method().  What
\* the head says is an input: the method, and for a POST the Content-Length.
Parse(t) ==
  /\ pc[t] = "parse"
  /\ \E ok \in BOOLEAN, m \in Methods :
       \E cl \in IF m = "POST" THEN ContentLengths ELSE {NoLength} :
         IF ok
         THEN /\ parsed' = TRUE
              /\ reqMethod' = m
              /\ reqLength' = cl
              /\ pc' = [pc EXCEPT ![t] = IF m = "CONNECT" THEN "lock"
                                         ELSE IF m = "POST" THEN "read_body"
                                         ELSE "request"]
         ELSE /\ pc' = [pc EXCEPT ![t] = "panicked"]
              /\ UNCHANGED <<parsed, reqMethod, reqLength>>
  /\ UNCHANGED <<map, nextAcc, lockHolder, poisoned, ticks, host, key, got, mintLog, lookLog, seen>>
  /\ UNCHANGED <<connVars, hdrVars, inner, httpVars, srv>>

(***************************************************************************)
(* handle_http and read_body                                               *)
(***************************************************************************)
\* Vec::with_capacity(n): room for n bytes, and none in it
WithCapacity(n) == <<>>
\* &mut buf[..n] is a slice when n is no more than the length of buf
SliceInRange(b, n) == n <= Len(b)

\* read_body: the Content-Length header unwrapped and parsed, a Vec of that
\* capacity, read_exact into its first content_length bytes
ReadBody(t) ==
  /\ pc[t] = "read_body"
  /\ IF reqLength = NoLength
     THEN /\ pc' = [pc EXCEPT ![t] = "panicked"]
          /\ UNCHANGED body
     ELSE IF ~SliceInRange(WithCapacity(reqLength), reqLength)
     THEN /\ pc' = [pc EXCEPT ![t] = "panicked"]
          /\ UNCHANGED body
     ELSE /\ body' = SubSeq(WithCapacity(reqLength), 1, reqLength)
          /\ pc' = [pc EXCEPT ![t] = "request"]
  /\ UNCHANGED <<map, nextAcc, lockHolder, poisoned, ticks, host, key, got, mintLog, lookLog, seen>>
  /\ UNCHANGED <<connVars, hdrVars, reqVars, inner, upReq, upBody, upLen, chunk, srv>>

\* Some(Err(..)) in a response body
BodyErr == 0
\* a response body of n chunks, the k-th chunk is k; failing bodies end in an error
ResponseBody(n, fails) == [k \in 1..n |-> k] \o (IF fails THEN <<BodyErr>> ELSE <<>>)

\* client.request(req).await.unwrap(): the request goes upstream with the
\* body; the response is an input: its chunks, whether its length is known,
\* whether it breaks off with an error
Request(t) ==
  /\ pc[t] = "request"
  /\ upReq' = [sent |-> TRUE, body |-> body]
  /\ \E ok \in BOOLEAN, n \in 0..MaxChunks, sized \in BOOLEAN, fails \in BOOLEAN :
       IF ok
       THEN /\ upBody' = ResponseBody(n, fails)
            /\ upLen' = IF sized THEN Len(ResponseBody(n, fails)) ELSE Unsized
            /\ pc' = [pc EXCEPT ![t] = "head"]
       ELSE /\ pc' = [pc EXCEPT ![t] = "panicked"]
            /\ UNCHANGED <<upBody, upLen>>
  /\ UNCHANGED <<map, nextAcc, lockHolder, poisoned, ticks, host, key, got, mintLog, lookLog, seen>>
  /\ UNCHANGED <<connVars, hdrVars, reqVars, inner, body, chunk, srv>>

\* the status line and headers of the response
ResponseHead == [version |-> reqVersion, status |-> 200]

\* stream.write_all(&response.into_utf8().unwrap()) into the BufStream
WriteHead(t) ==
  /\ pc[t] = "head"
  /\ wbuf' = Append(wbuf, ResponseHead)
  /\ pc' = [pc EXCEPT ![t] = "head_flush"]
  /\ UNCHANGED <<map, nextAcc, lockHolder, poisoned, ticks, host, key, got, mintLog, lookLog, seen>>
  /\ UNCHANGED <<reqVersion, reqHasPort, connection, clientWire, tlsOut, tlsIn, presented, result,
                 lpc, buf, off, rd, wr, sent, inq, closed, reset>>
  /\ UNCHANGED moreVars

\* stream.flush().await.unwrap()
FlushHead(t) ==
  /\ pc[t] = "head_flush"
  /\ \E flushed \in BOOLEAN :
       IF flushed
       THEN /\ clientWire' = clientWire \o wbuf
            /\ wbuf' = <<>>
            /\ pc' = [pc EXCEPT ![t] = "relay"]
       ELSE /\ pc' = [pc EXCEPT ![t] = "panicked"]
            /\ UNCHANGED <<clientWire, wbuf>>
  /\ UNCHANGED <<map, nextAcc, lockHolder, poisoned, ticks, host, key, got, mintLog, lookLog, seen>>
  /\ UNCHANGED <<reqVersion, reqHasPort, connection, tlsOut, tlsIn, presented, result,
                 lpc, buf, off, rd, wr, sent, inq, closed, reset>>
  /\ UNCHANGED moreVars

\* body.is_end_stream(): the length the body expects has come down to nothing
IsEndStream == upLen = 0

\* while !body.is_end_stream()
RelayTest(t) ==
  /\ pc[t] = "relay"
  /\ pc' = [pc EXCEPT ![t] = IF IsEndStream THEN "done" ELSE "data"]
  /\ UNCHANGED <<map, nextAcc, lockHolder, poisoned, ticks, host, key, got, mintLog, lookLog, seen>>
  /\ UNCHANGED <<connVars, moreVars>>

\* if let Some(Ok(buf)) = pin_body.data().await: a chunk goes on to the
\* writes; None and Some(Err(..)) fall through to the test of the loop
RelayData(t) ==
  /\ pc[t] = "data"
  /\ IF upBody = <<>>
     THEN /\ pc' = [pc EXCEPT ![t] = "relay"]
          /\ UNCHANGED <<upBody, upLen, chunk>>
     ELSE IF upBody[1] = BodyErr
     THEN /\ upBody' = Tail(upBody)
          /\ pc' = [pc EXCEPT ![t] = "relay"]
          /\ UNCHANGED <<upLen, chunk>>
     ELSE /\ chunk' = upBody[1]
          /\ upBody' = Tail(upBody)
          /\ upLen' = IF upLen = Unsized THEN Unsized ELSE upLen - 1
          /\ pc' = [pc EXCEPT ![t] = "chunk_write"]
  /\ UNCHANGED <<map, nextAcc, lockHolder, poisoned, ticks, host, key, got, mintLog, lookLog, seen>>
  /\ UNCHANGED <<connVars, hdrVars, reqVars, inner, body, upReq, srv>>

\* stream.write_all(&buf).await.unwrap()
RelayWrite(t) ==
  /\ pc[t] = "chunk_write"
  /\ wbuf' = Append(wbuf, [chunk |-> chunk])
  /\ pc' = [pc EXCEPT ![t] = "chunk_flush"]
  /\ UNCHANGED <<map, nextAcc, lockHolder, poisoned, ticks, host, key, got, mintLog, lookLog, seen>>
  /\ UNCHANGED <<reqVersion, reqHasPort, connection, clientWire, tlsOut, tlsIn, presented, result,
                 lpc, buf, off, rd, wr, sent, inq, closed, reset>>
  /\ UNCHANGED moreVars

\* stream.flush().await.unwrap(), then the next turn of the loop
RelayFlush(t) ==
  /\ pc[t] = "chunk_flush"
  /\ \E flushed \in BOOLEAN :
       IF flushed
       THEN /\ clientWire' = clientWire \o wbuf
            /\ wbuf' = <<>>
            /\ pc' = [pc EXCEPT ![t] = "relay"]
       ELSE /\ pc' = [pc EXCEPT ![t] = "panicked"]
            /\ UNCHANGED <<clientWire, wbuf>>
  /\ UNCHANGED <<map, nextAcc, lockHolder, poisoned, ticks, host, key, got, mintLog, lookLog, seen>>
  /\ UNCHANGED <<reqVersion, reqHasPort, connection, tlsOut, tlsIn, presented, result,
                 lpc, buf, off, rd, wr, sent, inq, closed, reset>>
  /\ UNCHANGED moreVars

HttpStep(t) ==
  \/ ReadBody(t)
  \/ Request(t)
  \/ WriteHead(t)
  \/ FlushHead(t)
  \/ RelayTest(t)
  \/ RelayData(t)
  \/ RelayWrite(t)
  \/ RelayFlush(t)

(***************************************************************************)
(* StreamSpec: handle_stream from the accepted socket on: the head is      *)
(* read, parsed and dispatched to the CONNECT path or the plain path.  The *)
(* client sends the head and up to MaxAfter bytes behind it: the start of  *)
(* its TLS handshake, or the body of its request.                          *)
(***************************************************************************)
\* the k bytes behind the head
After(k) == [i \in 1..k |-> ToString(i)]
StreamInputs == {ReqHead \o After(k) : k \in 0..MaxAfter}

StreamInit ==
  /\ MapInitCommon
  /\ ConnIdle
  /\ HttpIdle
  /\ HeadUnread
  /\ stream \in StreamInputs
  /\ reqVersion = "HTTP/1.1"
  /\ reqHasPort = TRUE
  /\ host = [t \in Tasks |-> IF t = ConnTask THEN HostA ELSE <<>>]
  /\ pc = [t \in Tasks |-> IF t = ConnTask THEN "read_until" ELSE "idle"]

\* every step of the connection task
StreamTaskStep ==
  \/ HeaderStep(ConnTask)
  \/ Parse(ConnTask)
  \/ ConnTaskStep
  \/ HttpStep(ConnTask)

StreamNext ==
  \/ StreamTaskStep
  \/ \E d \in Dirs : LinkStep(d)
  \/ PeerStep
  \/ \E n \in 1..(Len(ReqHead) + MaxAfter) : Arrive(n)
  \/ ClientShut

StreamSpec == StreamInit /\ [][StreamNext]_vars

\* The runtime polls the connection task and each run of link whenever they
\* can make a step.
FairStreamSpec ==
  /\ StreamInit
  /\ [][StreamNext]_vars
  /\ WF_vars(StreamTaskStep)
  /\ \A d \in Dirs : WF_vars(LinkStep(d))

\* C13: the inbound handshake reads from the socket every byte the client sent
\* behind the head, in order.
C13_NoByteLost ==
  tlsIn # "none" => inner = SubSeq(stream, ret + 1, Len(stream))

\* what the client sent behind the head, as far as the Content-Length says
ExpectedBody ==
  IF reqLength = NoLength THEN <<>> ELSE SubSeq(stream, ret + 1, ret + reqLength)

\* C14: a POST is issued upstream with the Content-Length bytes behind the head
\* as its body, with an empty body when there is no Content-Length, and the
\* connection task does not fail before the request is issued.
C14_PostBodyForwarded ==
  (parsed /\ reqMethod = "POST") =>
    /\ ~upReq.sent => pc[ConnTask] # "panicked"
    /\ upReq.sent => upReq.body = ExpectedBody

\* C15: the relay loop of the plain path ends, whatever the response body
\* yields.
C15_RelayTerminates ==
  (pc[ConnTask] = "relay") ~> (pc[ConnTask] \in {"done", "panicked"})

(***************************************************************************)
(* SrvSpec: the accept loop of Server::run under main, with the connection *)
(* tasks it spawns taking the lock and calling get.  The tasks end with    *)
(* the process.                                                            *)
(***************************************************************************)
\* run: listener.accept().await.map_err(..)? returns Err(TcpAcceptError) from
\* run; main: server.run().await.unwrap() panics, and the process ends
AcceptFail ==
  /\ srv = "accepting"
  /\ srv' = "exited"
  /\ UNCHANGED <<mapVars, connVars, hdrVars, reqVars, inner, httpVars>>

SrvInit == MapInit

SrvNext ==
  \/ \E t \in Tasks, h \in MapHosts : Spawn(t, h)
  \/ AcceptFail
  \/ \E t \in Tasks : srv = "accepting" /\ GetStep(t)

SrvSpec == SrvInit /\ [][SrvNext]_vars

\* C16: the accept loop runs on whatever accept returns: the server never
\* stops accepting.
C16_AcceptLoopSurvives == srv = "accepting"

\* C17: get never fails: the lookup that ends a call finds the entry whose
\* presence the call checked or that it inserted, so no call panics with the
\* guard held and the Mutex is never poisoned.
C17_GetNeverFails ==
  /\ ~poisoned
  /\ \A t \in Tasks : pc[t] = "lookup" => ContainsKey(key[t])

\* the origin closed right after the handshakes and no byte has been sent
OriginClosedAtOnce ==
  /\ tlsIn = "ok"
  /\ closed["origin"]
  /\ \A x \in Sides : sent[x] = 0
  /\ \A d \in Dirs : rd[d] = <<>>
\* the client has sent or closed, or a connection has broken
ClientActedOrBroken ==
  \/ sent["client"] > 0
  \/ closed["client"]
  \/ \E x \in Sides : reset[x]

\* C18: when the origin closes right after the handshakes, handle_https returns
\* Ok with nothing relayed, without the client having to send or close (and
\* unless a connection breaks).
C18_OriginCloseReturnsOk ==
  OriginClosedAtOnce ~>
    \/ (pc[ConnTask] = "done" /\ result = "ok" /\ \A d \in Dirs : wr[d] = <<>>)
    \/ ClientActedOrBroken

(***************************************************************************)
(* ShareSpec: one connection followed through handle_stream, on either     *)
(* path, while another connection task takes the lock and calls get.  The  *)
(* client keeps its sending side open until the tunnel.                    *)
(***************************************************************************)
\* the other connection task
OtherTask == 2

ShareInit ==
  /\ StreamInit
  /\ stream = ReqHead

ShareNext ==
  \/ StreamTaskStep
  \/ \E d \in Dirs : LinkStep(d)
  \/ PeerStep
  \/ \E n \in 1..Len(ReqHead) : Arrive(n)
  \/ Spawn(OtherTask, HostB)
  \/ GetStep(OtherTask)

ShareSpec == ShareInit /\ [][ShareNext]_vars

\* the positions between acceptors.lock() and the end of the block
InCriticalSection(t) == pc[t] \in {"check", "mint", "lookup", "unlock"}

\* C19: the lock is held only inside the lookup-or-mint block: a task at any
\* other position, every I/O point included, does not hold it, and the lock
\* is free whenever no task is inside the block.
C19_LockOnlyInGet ==
  /\ \A t \in Tasks : lockHolder = t => InCriticalSection(t)
  /\ (\A t \in Tasks : ~InCriticalSection(t)) => LockFree

C19_Witness ==
  /\ pc[ConnTask] = "join"
  /\ lpc["c2s"] = "read"
  /\ inq["client"] = <<>>
  /\ lockHolder = OtherTask
  /\ pc[OtherTask] = "lookup"

\* C20: the steps of a CONNECT run come in the order lookup, TCP connect,
\* reply, outbound handshake, inbound handshake, copy loops; the inbound
\* handshake starts only after the outbound one succeeded, the copy loops only
\* after both; a failed outbound handshake ends the run with the 200 already at
\* the client.
C20_StepOrder ==
  /\ connection # "none" => got[ConnTask] # NoAcc
  /\ (wbuf # <<>> \/ clientWire # <<>>) => connection # "none"
  /\ tlsOut # "none" => (clientWire # <<>> /\ clientWire[1].status = 200)
  /\ tlsIn # "none" => tlsOut = "ok"
  /\ (\E d \in Dirs : lpc[d] # "idle") => (tlsOut = "ok" /\ tlsIn = "ok")
  /\ tlsOut = "err" =>
       /\ pc[ConnTask] = "done"
       /\ result = "err"
       /\ tlsIn = "none"
       /\ \A d \in Dirs : lpc[d] = "idle"
       /\ clientWire = <<[version |-> reqVersion, status |-> 200]>>

C20_Witness ==
  /\ tlsOut = "err"
  /\ pc[ConnTask] = "done"
  /\ result = "err"
  /\ clientWire # <<>>
  /\ clientWire[1].status = 200

====
